---- MODULE Spec2Model ----
(***************************************************************************)
(* Model of the two lock-partitioned resource managers of the kernel:      *)
(*   kernel/bio.c    -- the hashed buffer cache (bget, bread, bwrite,      *)
(*                      brelse, bpin, bunpin)                              *)
(*   kernel/kalloc.c -- the per-CPU physical page allocator (kinit,        *)
(*                      kfree, kalloc)                                     *)
(* Every kernel thread runs on a core of its own, so a spin lock's owner   *)
(* (a cpu) and a sleep lock's owner (a process) are both named by the      *)
(* thread.  Owner 0 means "not held".                                      *)
(***************************************************************************)
EXTENDS Integers, Sequences, FiniteSets, TLC

\* ------------------------------------------------------------ sizes
BUCKET_SIZE == 13          \* bio.c:26
NBUF == 2                  \* buffers in the pool (param.h, scaled down)
NTHREAD == 2               \* kernel threads using the buffer cache
MaxTick == 2               \* the tick counter stops advancing here
MaxData == 1               \* payload contents are 0..MaxData

NCPU == 3                  \* cores using the page allocator (param.h, scaled down)
NPAGE == 2                 \* pages between end and PHYSTOP

NoBuf == -1                \* the null struct buf pointer
NoPage == 0                \* the null struct run pointer

PGSIZE == 2                \* bytes per page (riscv.h, scaled down)
KernelEnd == 3             \* end, the first address after the kernel

Bufs == 0 .. (NBUF - 1)
Buckets == 0 .. (BUCKET_SIZE - 1)
Threads == 1 .. NTHREAD
Values == 0 .. MaxData
Cpus == 0 .. (NCPU - 1)
NoCpu == NCPU              \* owner of a pool lock nobody holds

\* ------------------------------------------------------------ page addresses
PGROUNDUP(a) == ((a + PGSIZE - 1) \div PGSIZE) * PGSIZE

\* The managed range ends here; it holds NPAGE whole pages.
PHYSTOP == PGROUNDUP(KernelEnd) + NPAGE * PGSIZE

\* freerange(end, PHYSTOP): the pages kinit frees, by address.
Pages ==
  {p \in PGROUNDUP(KernelEnd) .. PHYSTOP :
     (p - PGROUNDUP(KernelEnd)) % PGSIZE = 0 /\ p + PGSIZE <= PHYSTOP}

\* The addresses a caller may pass to kfree.
Addrs == 0 .. (PHYSTOP + PGSIZE)

\* ------------------------------------------------------------ block requests

\* The (dev, blockno) pairs the file system asks for: two blocks hashing to
\* bucket 0 (one of them the all-zero identity a buffer has after binit) and
\* two hashing to bucket 1.
Reqs == {<<0, 0>>, <<1, 0>>, <<0, 14>>, <<1, 14>>}

\* The pairs asked for where payloads and the device are followed.
IOReqs == {<<0, 0>>, <<1, 0>>, <<0, 14>>}

VARIABLES
  lock,       \* bcache.lock[i]: owner of each bucket's spin lock
  next,       \* b->next, of every buffer and every bucket's head
  prev,       \* b->prev, of every buffer and every bucket's head
  dev,        \* b->dev
  blockno,    \* b->blockno
  valid,      \* b->valid
  refcnt,     \* b->refcnt
  used_tick,  \* b->used_tick
  slk,        \* b->lock: owner of each buffer's sleep lock
  data,       \* b->data
  disk,       \* the device's content, per block
  ticks,      \* the global tick counter
  panicked,   \* panic() has halted the kernel
  pc,         \* where each thread is
  req,        \* the (dev, blockno) of the thread's bread call
  cur,        \* the thread's struct buf *b
  idx,        \* bget's loop variable i
  pinned,     \* the buffer the thread holds a bpin on, or NoBuf
  fresh,      \* the thread's bread missed and read the block from the
              \* device, and the thread has not stored to the payload since
  stored      \* the buffer's payload has been stored to since its last
              \* transfer from or to the device

VARIABLES
  klock,      \* kmem.locks[i]: owner of each pool's spin lock
  freelist,   \* kmem.freelist_CPU[i], first page first
  kpc,        \* where each core is
  kr,         \* kalloc's r
  ki,         \* kalloc's loop variable i
  karg,       \* kfree's pa
  held,       \* the pages each core holds from kalloc
  some,       \* since the core's kalloc began some pool has always had a page
  pre         \* the pools as they were when a kalloc began that runs alone

kvars == <<klock, freelist, kpc, kr, ki, karg, held, some, pre>>

bvars == <<lock, next, prev, dev, blockno, valid, refcnt, used_tick, slk, data, disk,
           ticks, panicked, pc, req, cur, idx, pinned, fresh, stored>>

vars == <<bvars, kvars>>

\* ------------------------------------------------------------ helpers
Bucket(bn) == bn % BUCKET_SIZE

RECURSIVE Descending(_)
Descending(S) ==
  IF S = {} THEN <<>>
  ELSE LET m == CHOOSE x \in S : \A y \in S : y <= x
       IN <<m>> \o Descending(S \ {m})

\* The list nodes: the buffers and, for each bucket, its head.
HeadOf(k) == NBUF + k

Nodes == Bufs \cup {HeadOf(k) : k \in Buckets}

InList(s, b) == \E j \in 1 .. Len(s) : s[j] = b

\* Faulty variant of Unlink: only the forward pointer is redirected.
UnlinkNextOnly(L, b) ==
  [next |-> [L.next EXCEPT ![L.prev[b]] = L.next[b]], prev |-> L.prev]

\* temp->prev->next = temp->next; temp->next->prev = temp->prev: b is
\* spliced out of the list its prev and next pointers place it in.  L is
\* the pair of pointer maps [next, prev].
Unlink(L, b) ==
  [next |-> [L.next EXCEPT ![L.prev[b]] = L.next[b]],
   prev |-> [L.prev EXCEPT ![L.next[b]] = L.prev[b]]]

\* Faulty variant of LinkHead: b is linked after the head of the next bucket.
LinkHeadNextBucket(L, k, b) ==
  LET h == HeadOf((k + 1) % BUCKET_SIZE)
      first == L.next[h]
  IN [next |-> [L.next EXCEPT ![b] = first, ![h] = b],
      prev |-> [L.prev EXCEPT ![b] = h, ![first] = b]]

\* b->next = head[k].next; b->prev = &head[k]; head[k].next->prev = b;
\* head[k].next = b: b is linked right after the head of bucket k.
LinkHead(L, k, b) ==
  LET h == HeadOf(k)
      first == L.next[h]
  IN [next |-> [L.next EXCEPT ![b] = first, ![h] = b],
      prev |-> [L.prev EXCEPT ![b] = h, ![first] = b]]

\* binit: every head points to itself, then buffer i is linked at the head
\* of bucket i % BUCKET_SIZE, for i = 0, 1, ...
RECURSIVE InitLinks(_)
InitLinks(n) ==
  IF n = 0
  THEN [next |-> [x \in Nodes |-> x], prev |-> [x \in Nodes |-> x]]
  ELSE LinkHead(InitLinks(n - 1), (n - 1) % BUCKET_SIZE, n - 1)

\* The pointers as they are.
Links == [next |-> next, prev |-> prev]

\* for(b = head.next; b != &head; b = b->next): the buffers met from node n
\* on, following next, until the head h comes round (at most fuel of them).
RECURSIVE Walk(_, _, _, _)
Walk(nx, n, h, fuel) ==
  IF n = h \/ n \notin Bufs \/ fuel = 0 THEN <<>>
  ELSE <<n>> \o Walk(nx, nx[n], h, fuel - 1)

\* Each bucket's list as a traversal from its head meets it, head.next first.
list == [k \in Buckets |-> Walk(next, next[HeadOf(k)], HeadOf(k), NBUF)]

\* The bucket whose list b is linked in (BUCKET_SIZE when it is in none).
BucketOf(b) ==
  IF \E k \in Buckets : InList(list[k], b)
  THEN CHOOSE k \in Buckets : InList(list[k], b)
  ELSE BUCKET_SIZE

\* Faulty variant of Lookup: only the first buffer of the list is compared.
LookupFirstOnly(s, d, bn) ==
  IF s # <<>> /\ dev[Head(s)] = d /\ blockno[Head(s)] = bn THEN Head(s)
  ELSE NoBuf

\* The first buffer of the list with the identity, or NoBuf.
RECURSIVE Lookup(_, _, _)
Lookup(s, d, bn) ==
  IF s = <<>> THEN NoBuf
  ELSE IF dev[Head(s)] = d /\ blockno[Head(s)] = bn THEN Head(s)
  ELSE Lookup(Tail(s), d, bn)

\* Faulty variant of Eligible: the reference count is not tested.
EligibleAnyRef(b, temp_tick) == temp_tick = 0 \/ used_tick[b] < temp_tick

\* bget's test on a buffer of the bucket being scanned.
Eligible(b, temp_tick) ==
  refcnt[b] = 0 /\ (temp_tick = 0 \/ used_tick[b] < temp_tick)

\* Faulty variant of ScanList: with no candidate yet, any buffer is taken.
RECURSIVE ScanListFallback(_, _, _)
ScanListFallback(s, temp, temp_tick) ==
  IF s = <<>> THEN <<temp, temp_tick>>
  ELSE IF Eligible(Head(s), temp_tick) \/ temp = NoBuf
       THEN ScanListFallback(Tail(s), Head(s), used_tick[Head(s)])
       ELSE ScanListFallback(Tail(s), temp, temp_tick)

\* The inner for loop of bget's eviction scan over one bucket's list:
\* <<temp, temp_tick>> after it.
RECURSIVE ScanList(_, _, _)
ScanList(s, temp, temp_tick) ==
  IF s = <<>> THEN <<temp, temp_tick>>
  ELSE IF Eligible(Head(s), temp_tick)
       THEN ScanList(Tail(s), Head(s), used_tick[Head(s)])
       ELSE ScanList(Tail(s), temp, temp_tick)

\* The buckets some requested block hashes to.  Only these ever gain a buffer
\* (a victim is relinked into the home bucket of the request) and only these
\* locks are held across a wait (a foreign lock is released within the
\* iteration that took it).
HomeBuckets == {Bucket(r[2]) : r \in Reqs}

\* An iteration over a bucket that is empty and that no request hashes to
\* acquires a lock nobody waits with, finds nothing and releases it: it has
\* no effect and commutes with every other step, so it is taken together
\* with the step before it.  NextIdx(home, i) is the first loop index >= i
\* whose iteration is not of that kind (BUCKET_SIZE when the loop is over).
RECURSIVE NextIdx(_, _, _)
NextIdx(l, home, i) ==
  IF i >= BUCKET_SIZE THEN BUCKET_SIZE
  ELSE LET bucket == (home + i) % BUCKET_SIZE
       IN IF l[bucket] = <<>> /\ bucket \notin HomeBuckets
          THEN NextIdx(l, home, i + 1)
          ELSE i

\* The lock primitives (spinlock.c, sleeplock.c): acquire() spins until
\* nobody holds the spin lock (of a bucket, of a pool), holding() tells
\* whether the calling cpu holds it, acquiresleep() sleeps until nobody
\* holds the sleep lock, and holdingsleep() tells whether the calling
\* process holds it.
SpinFree(k) == lock[k] = 0

SpinHolding(k, t) == lock[k] = t

SleepLockFree(b) == slk[b] = 0

PoolLockFree(i) == klock[i] = NoCpu

SleepHolding(b, t) == slk[b] = t

\* ------------------------------------------------------------ initial state
Init ==
  /\ lock = [k \in Buckets |-> 0]
  /\ next = InitLinks(NBUF).next
  /\ prev = InitLinks(NBUF).prev
  /\ dev = [b \in Bufs |-> 0]
  /\ blockno = [b \in Bufs |-> 0]
  /\ valid = [b \in Bufs |-> 0]
  /\ refcnt = [b \in Bufs |-> 0]
  /\ used_tick = [b \in Bufs |-> 0]
  /\ slk = [b \in Bufs |-> 0]
  /\ data = [b \in Bufs |-> 0]
  /\ disk = [r \in Reqs |-> 0]
  /\ ticks = 0
  /\ panicked = FALSE
  /\ pc = [t \in Threads |-> "idle"]
  /\ req = [t \in Threads |-> <<0, 0>>]
  /\ cur = [t \in Threads |-> NoBuf]
  /\ idx = [t \in Threads |-> 0]
  /\ pinned = [t \in Threads |-> NoBuf]
  /\ fresh = [t \in Threads |-> FALSE]
  /\ stored = [b \in Bufs |-> FALSE]
  /\ klock = [c \in Cpus |-> NoCpu]
  /\ freelist = [c \in Cpus |-> IF c = 0 THEN Descending(Pages) ELSE <<>>]
  /\ kpc = [c \in Cpus |-> "idle"]
  /\ kr = [c \in Cpus |-> NoPage]
  /\ ki = [c \in Cpus |-> 0]
  /\ karg = [c \in Cpus |-> NoPage]
  /\ held = [c \in Cpus |-> {}]
  /\ some = [c \in Cpus |-> FALSE]
  /\ pre = [c \in Cpus |-> <<>>]

\* ------------------------------------------------------------ buffer cache
\* The clock interrupt advances ticks.
Tick ==
  /\ ~panicked
  /\ ticks < MaxTick
  /\ ticks' = ticks + 1
  /\ UNCHANGED <<lock, next, prev, dev, blockno, valid, refcnt, used_tick, slk, data,
                 disk, panicked, pc, req, cur, idx, pinned, fresh, stored>>

\* Faulty variant of TakeRef: a hit takes no reference.
TakeNoRef(b) == refcnt

\* b->refcnt++ on a hit.
TakeRef(b) == [refcnt EXCEPT ![b] = @ + 1]

\* bread calls bget: acquire the home bucket's lock and look the block up.
\* On a hit the reference is taken and the lock released before sleeping on
\* the buffer's lock; on a miss the thread goes on to the eviction scan with
\* the home lock held.
BgetBegin(t, d, bn) ==
  LET home == Bucket(bn)
      b == Lookup(list[home], d, bn)
  IN /\ ~panicked
     /\ pc[t] = "idle"
     /\ SpinFree(home)
     /\ req' = [req EXCEPT ![t] = <<d, bn>>]
     /\ IF b # NoBuf
        THEN /\ refcnt' = TakeRef(b)
             /\ used_tick' = [used_tick EXCEPT ![b] = ticks]
             /\ cur' = [cur EXCEPT ![t] = b]
             /\ pc' = [pc EXCEPT ![t] = "asleep"]
             /\ fresh' = [fresh EXCEPT ![t] = FALSE]
             /\ UNCHANGED <<lock, idx>>
        ELSE /\ lock' = [lock EXCEPT ![home] = t]
             /\ idx' = [idx EXCEPT ![t] = 0]
             /\ pc' = [pc EXCEPT ![t] = "scan"]
             /\ UNCHANGED <<refcnt, used_tick, cur, fresh>>
     /\ UNCHANGED <<next, prev, dev, blockno, valid, slk, data, disk, ticks, panicked,
                    pinned, stored>>

\* Faulty variant of ClearValid: the victim stays valid.
KeepValid(b) == valid

\* b->valid = 0 on the victim.
ClearValid(b) == [valid EXCEPT ![b] = 0]

\* Faulty variant of ReleaseHome: the home lock stays held.
KeepHome(home) == lock

\* release(&bcache.lock[cur_bucket]) once the victim is the caller's.
ReleaseHome(home) == [lock EXCEPT ![home] = 0]

\* bget's reassignment of the victim b, linked as L says: it takes the
\* identity asked for, is marked not valid, gets its one reference and the
\* tick, and the home lock is released before the caller sleeps on b's lock.
Recycle(t, b, L) ==
  /\ next' = L.next
  /\ prev' = L.prev
  /\ dev' = [dev EXCEPT ![b] = req[t][1]]
  /\ blockno' = [blockno EXCEPT ![b] = req[t][2]]
  /\ valid' = ClearValid(b)
  /\ refcnt' = [refcnt EXCEPT ![b] = 1]
  /\ used_tick' = [used_tick EXCEPT ![b] = ticks]
  /\ lock' = ReleaseHome(Bucket(req[t][2]))
  /\ cur' = [cur EXCEPT ![t] = b]
  /\ pc' = [pc EXCEPT ![t] = "asleep"]
  /\ fresh' = [fresh EXCEPT ![t] = TRUE]
  /\ idx' = [idx EXCEPT ![t] = 0]

\* One iteration of bget's loop over the buckets, for bucket
\* (cur_bucket + i) % BUCKET_SIZE.  A foreign bucket whose lock this cpu
\* holds is skipped; any other foreign bucket is acquired, which waits while
\* another cpu holds it.  A victim found in the home bucket is reassigned
\* where it is; a victim found in a foreign bucket is unlinked and that
\* bucket's lock released, the home lock still held.
BgetScan(t) ==
  LET home == Bucket(req[t][2])
      bucket == (home + idx[t]) % BUCKET_SIZE
      temp == ScanList(list[bucket], NoBuf, 0)[1]
  IN /\ ~panicked
     /\ pc[t] = "scan"
     /\ idx[t] < BUCKET_SIZE
     /\ IF bucket # home /\ SpinHolding(bucket, t)
        THEN /\ idx' = [idx EXCEPT ![t] = NextIdx(list, home, @ + 1)]
             /\ UNCHANGED <<lock, next, prev, dev, blockno, valid, refcnt,
                            used_tick, cur, pc, fresh>>
        ELSE /\ bucket # home => SpinFree(bucket)
             /\ IF temp = NoBuf
                THEN /\ idx' = [idx EXCEPT ![t] = NextIdx(list, home, @ + 1)]
                     /\ UNCHANGED <<lock, next, prev, dev, blockno, valid,
                                    refcnt, used_tick, cur, pc, fresh>>
                ELSE IF bucket = home
                THEN Recycle(t, temp, Links)
                ELSE /\ next' = Unlink(Links, temp).next
                     /\ prev' = Unlink(Links, temp).prev
                     /\ cur' = [cur EXCEPT ![t] = temp]
                     /\ pc' = [pc EXCEPT ![t] = "move"]
                     /\ idx' = [idx EXCEPT ![t] = 0]
                     /\ UNCHANGED <<lock, dev, blockno, valid, refcnt,
                                    used_tick, fresh>>
     /\ UNCHANGED <<slk, data, disk, ticks, panicked, req, pinned, stored>>

\* bget with the victim unlinked from a foreign bucket: link it at the head
\* of the home bucket's list and reassign it.
BgetMove(t) ==
  /\ ~panicked
  /\ pc[t] = "move"
  /\ Recycle(t, cur[t], LinkHead(Links, Bucket(req[t][2]), cur[t]))
  /\ UNCHANGED <<slk, data, disk, ticks, panicked, req, pinned, stored>>

\* The loop ended with no victim: panic("bget: no buffers"), which halts the
\* kernel; the home lock is still held.
BgetPanic(t) ==
  /\ ~panicked
  /\ pc[t] = "scan"
  /\ idx[t] = BUCKET_SIZE
  /\ panicked' = TRUE
  /\ pc' = [pc EXCEPT ![t] = "panic"]
  /\ UNCHANGED <<lock, next, prev, dev, blockno, valid, refcnt, used_tick, slk, data,
                 disk, ticks, req, cur, idx, pinned, fresh, stored>>

\* acquiresleep(&b->lock), after which bget returns b.
BgetSleep(t) ==
  /\ ~panicked
  /\ pc[t] = "asleep"
  /\ SleepLockFree(cur[t])
  /\ slk' = [slk EXCEPT ![cur[t]] = t]
  /\ pc' = [pc EXCEPT ![t] = "bread"]
  /\ UNCHANGED <<lock, next, prev, dev, blockno, valid, refcnt, used_tick, data, disk,
                 ticks, panicked, req, cur, idx, pinned, fresh, stored>>

\* virtio_disk_rw(b, 0): the payload becomes the device's content of the
\* block the buffer names.
DiskRead(b) == [data EXCEPT ![b] = disk[<<dev[b], blockno[b]>>]]

\* Faulty variant of NeedsRead: bread never reads the device.
NeedsReadNever(b) == FALSE

\* if(!b->valid) in bread.
NeedsRead(b) == valid[b] = 0

\* The rest of bread: read the block in if the buffer is not valid, stamp it.
BreadReturn(t) ==
  LET b == cur[t]
  IN /\ ~panicked
     /\ pc[t] = "bread"
     /\ IF NeedsRead(b)
        THEN /\ data' = DiskRead(b)
             /\ valid' = [valid EXCEPT ![b] = 1]
             /\ stored' = [stored EXCEPT ![b] = FALSE]
        ELSE UNCHANGED <<data, valid, stored>>
     /\ fresh' = [fresh EXCEPT ![t] = @ /\ NeedsRead(b)]
     /\ used_tick' = [used_tick EXCEPT ![b] = ticks]
     /\ pc' = [pc EXCEPT ![t] = "held"]
     /\ UNCHANGED <<lock, next, prev, dev, blockno, refcnt, slk, disk, ticks, panicked,
                    req, cur, idx, pinned>>

\* The holder of the buffer's lock stores to its payload.
Modify(t, v) ==
  /\ ~panicked
  /\ pc[t] = "held"
  /\ data[cur[t]] # v
  /\ data' = [data EXCEPT ![cur[t]] = v]
  /\ fresh' = [fresh EXCEPT ![t] = FALSE]
  /\ stored' = [stored EXCEPT ![cur[t]] = TRUE]
  /\ UNCHANGED <<lock, next, prev, dev, blockno, valid, refcnt, used_tick, slk, disk,
                 ticks, panicked, pc, req, cur, idx, pinned>>

\* virtio_disk_rw(b, 1): the device's content of the block the buffer names
\* becomes the payload.
DiskWrite(b) == [disk EXCEPT ![<<dev[b], blockno[b]>>] = data[b]]

\* bwrite by the holder of the buffer's lock.
Bwrite(t) ==
  /\ ~panicked
  /\ pc[t] = "held"
  /\ SleepHolding(cur[t], t)
  /\ disk' = DiskWrite(cur[t])
  /\ stored' = [stored EXCEPT ![cur[t]] = FALSE]
  /\ UNCHANGED <<lock, next, prev, dev, blockno, valid, refcnt, used_tick, slk, data,
                 ticks, panicked, pc, req, cur, idx, pinned, fresh>>

\* brelse, first half: releasesleep(&b->lock).
BrelseUnlock(t) ==
  /\ ~panicked
  /\ pc[t] = "held"
  /\ SleepHolding(cur[t], t)
  /\ slk' = [slk EXCEPT ![cur[t]] = 0]
  /\ pc' = [pc EXCEPT ![t] = "brelse"]
  /\ UNCHANGED <<lock, next, prev, dev, blockno, valid, refcnt, used_tick, data, disk,
                 ticks, panicked, req, cur, idx, pinned, fresh, stored>>

\* brelse's move of b to the most-recently-used end of bucket k.
MoveToHead(k, b) == LinkHead(Unlink(Links, b), k, b)

\* brelse, second half, under the lock of bucket b->blockno % BUCKET_SIZE:
\* drop the reference, stamp the tick, and move the buffer to the head of
\* that bucket's list when the count reaches zero.
BrelseDrop(t) ==
  LET b == cur[t]
      cur_bucket == Bucket(blockno[b])
  IN /\ ~panicked
     /\ pc[t] = "brelse"
     /\ SpinFree(cur_bucket)
     /\ refcnt' = [refcnt EXCEPT ![b] = @ - 1]
     /\ used_tick' = [used_tick EXCEPT ![b] = ticks]
     /\ next' = (IF refcnt[b] - 1 = 0 THEN MoveToHead(cur_bucket, b) ELSE Links).next
     /\ prev' = (IF refcnt[b] - 1 = 0 THEN MoveToHead(cur_bucket, b) ELSE Links).prev
     /\ pc' = [pc EXCEPT ![t] = "idle"]
     /\ cur' = [cur EXCEPT ![t] = NoBuf]
     /\ req' = [req EXCEPT ![t] = <<0, 0>>]
     /\ fresh' = [fresh EXCEPT ![t] = FALSE]
     /\ UNCHANGED <<lock, dev, blockno, valid, slk, data, disk, ticks, panicked,
                    idx, pinned, stored>>

\* Faulty variant of PinRef: the pin takes no reference.
PinNoRef(b) == refcnt

\* b->refcnt++ in bpin.
PinRef(b) == [refcnt EXCEPT ![b] = @ + 1]

\* b->refcnt-- in bunpin.
UnpinRef(b) == [refcnt EXCEPT ![b] = @ - 1]

\* bpin by the holder of the buffer, under the lock of bucket
\* b->blockno % BUCKET_SIZE.
Bpin(t) ==
  LET b == cur[t]
  IN /\ ~panicked
     /\ pc[t] = "held"
     /\ pinned[t] = NoBuf
     /\ SpinFree(Bucket(blockno[b]))
     /\ refcnt' = PinRef(b)
     /\ pinned' = [pinned EXCEPT ![t] = b]
     /\ UNCHANGED <<lock, next, prev, dev, blockno, valid, used_tick, slk, data, disk,
                    ticks, panicked, pc, req, cur, idx, fresh, stored>>

\* bunpin of the buffer the thread pinned earlier.
Bunpin(t) ==
  LET b == pinned[t]
  IN /\ ~panicked
     /\ pc[t] \in {"idle", "held"}
     /\ b # NoBuf
     /\ SpinFree(Bucket(blockno[b]))
     /\ refcnt' = UnpinRef(b)
     /\ pinned' = [pinned EXCEPT ![t] = NoBuf]
     /\ UNCHANGED <<lock, next, prev, dev, blockno, valid, used_tick, slk, data, disk,
                    ticks, panicked, pc, req, cur, idx, fresh, stored>>

\* ------------------------------------------------------------ page allocator
\* Faulty variant of Push: r->next is not set, the rest of the list is lost.
PushAlone(s, p) == <<p>>

\* Faulty variant of Push: the page is linked at the end of the list.
PushBack(s, p) == s \o <<p>>

\* r->next = kmem.freelist_CPU[cur_cpu]; kmem.freelist_CPU[cur_cpu] = r
Push(s, p) == <<p>> \o s

\* Faulty variant of Pop: the page stays linked.
PopKeep(s) == s

\* kmem.freelist_CPU[i] = r->next
Pop(s) == Tail(s)

InKalloc(st) == st \in {"ka_local", "ka_steal", "ka_remote", "ka_ret"}

OthersIdle(c) == \A x \in Cpus \ {c} : kpc[x] = "idle"

\* Faulty variant of BadAddr: the alignment is not tested.
BadAddrAnyAlign(pa) == pa < KernelEnd \/ pa >= PHYSTOP

\* kfree's test of its argument.
BadAddr(pa) == pa % PGSIZE # 0 \/ pa < KernelEnd \/ pa >= PHYSTOP

\* kfree(pa), of a page the core holds or of an address that is no page:
\* panic("kfree") on an address that fails the test, which leaves the core
\* spinning in panic; otherwise acquire the core's own pool lock.
\* With alone, the call begins only while no other core is in a call.
KfreeBegin(c, pa, alone) ==
  /\ kpc[c] = "idle"
  /\ alone => OthersIdle(c)
  /\ pa \in held[c] \/ pa \notin Pages
  /\ IF BadAddr(pa)
     THEN /\ kpc' = [kpc EXCEPT ![c] = "panic"]
          /\ UNCHANGED <<klock, karg, held>>
     ELSE /\ PoolLockFree(c)
          /\ klock' = [klock EXCEPT ![c] = c]
          /\ karg' = [karg EXCEPT ![c] = pa]
          /\ held' = [held EXCEPT ![c] = @ \ {pa}]
          /\ kpc' = [kpc EXCEPT ![c] = "kf_link"]
  /\ UNCHANGED <<freelist, kr, ki, pre>>

\* kfree: link the page at the head of the core's own list, release.
KfreeLink(c) ==
  /\ kpc[c] = "kf_link"
  /\ freelist' = [freelist EXCEPT ![c] = Push(@, karg[c])]
  /\ klock' = [klock EXCEPT ![c] = NoCpu]
  /\ karg' = [karg EXCEPT ![c] = NoPage]
  /\ kpc' = [kpc EXCEPT ![c] = "idle"]
  /\ UNCHANGED <<kr, ki, held, pre>>

\* kalloc: acquire the core's own pool lock.
KallocBegin(c, alone) ==
  /\ kpc[c] = "idle"
  /\ alone => OthersIdle(c)
  /\ PoolLockFree(c)
  /\ klock' = [klock EXCEPT ![c] = c]
  /\ kpc' = [kpc EXCEPT ![c] = "ka_local"]
  /\ pre' = IF alone THEN freelist ELSE pre
  /\ UNCHANGED <<freelist, kr, ki, karg, held>>

\* Faulty variant of ProbeStart: the loop starts after the core's own pool.
ProbeStartAfterSelf(c) == c + 1

\* for (int i = 0; ...: the loop over the pools starts at pool 0.
ProbeStart(c) == 0

\* Faulty variant of ReleaseLocal: the core's own lock stays held.
KeepLocal(c) == klock

\* release(&kmem.locks[cur_cpu]) before the other pools are probed.
ReleaseLocal(c) == [klock EXCEPT ![c] = NoCpu]

\* kalloc: take the first page of the core's own list if there is one,
\* release the lock; with no page, go on to the other pools.
KallocLocal(c) ==
  /\ kpc[c] = "ka_local"
  /\ klock' = ReleaseLocal(c)
  /\ IF freelist[c] # <<>>
     THEN /\ kr' = [kr EXCEPT ![c] = Head(freelist[c])]
          /\ freelist' = [freelist EXCEPT ![c] = Pop(@)]
          /\ kpc' = [kpc EXCEPT ![c] = "ka_ret"]
          /\ UNCHANGED ki
     ELSE /\ kr' = [kr EXCEPT ![c] = NoPage]
          /\ ki' = [ki EXCEPT ![c] = ProbeStart(c)]
          /\ kpc' = [kpc EXCEPT ![c] = "ka_steal"]
          /\ UNCHANGED freelist
  /\ UNCHANGED <<karg, held, pre>>

\* kalloc's loop over the pools: the core's own index is passed over, any
\* other pool's lock is acquired; after the last index the loop ends.
KallocProbe(c) ==
  /\ kpc[c] = "ka_steal"
  /\ IF ki[c] >= NCPU
     THEN /\ kpc' = [kpc EXCEPT ![c] = "ka_ret"]
          /\ UNCHANGED <<klock, ki>>
     ELSE IF ki[c] = c
     THEN /\ ki' = [ki EXCEPT ![c] = @ + 1]
          /\ UNCHANGED <<klock, kpc>>
     ELSE /\ PoolLockFree(ki[c])
          /\ klock' = [klock EXCEPT ![ki[c]] = c]
          /\ kpc' = [kpc EXCEPT ![c] = "ka_remote"]
          /\ UNCHANGED ki
  /\ UNCHANGED <<freelist, kr, karg, held, pre>>

\* kalloc, with pool i locked: take its first page and leave the loop, or
\* release it and go on with i + 1.
KallocRemote(c) ==
  LET i == ki[c]
  IN /\ kpc[c] = "ka_remote"
     /\ klock' = [klock EXCEPT ![i] = NoCpu]
     /\ IF freelist[i] # <<>>
        THEN /\ kr' = [kr EXCEPT ![c] = Head(freelist[i])]
             /\ freelist' = [freelist EXCEPT ![i] = Pop(@)]
             /\ kpc' = [kpc EXCEPT ![c] = "ka_ret"]
             /\ UNCHANGED ki
        ELSE /\ ki' = [ki EXCEPT ![c] = @ + 1]
             /\ kpc' = [kpc EXCEPT ![c] = "ka_steal"]
             /\ UNCHANGED <<kr, freelist>>
     /\ UNCHANGED <<karg, held, pre>>

\* kalloc returns r; a page returned is the caller's until it frees it.
KallocReturn(c) ==
  /\ kpc[c] = "ka_ret"
  /\ held' = [held EXCEPT ![c] = IF kr[c] # NoPage THEN @ \cup {kr[c]} ELSE @]
  /\ kr' = [kr EXCEPT ![c] = NoPage]
  /\ ki' = [ki EXCEPT ![c] = 0]
  /\ kpc' = [kpc EXCEPT ![c] = "idle"]
  /\ UNCHANGED <<klock, freelist, karg, pre>>

\* ------------------------------------------------------------ specifications
Next ==
  \/ Tick /\ UNCHANGED kvars
  \/ \E t \in Threads : \E r \in Reqs :
       BgetBegin(t, r[1], r[2]) /\ UNCHANGED kvars
  \/ \E t \in Threads : BgetScan(t) /\ UNCHANGED kvars
  \/ \E t \in Threads : BgetMove(t) /\ UNCHANGED kvars
  \/ \E t \in Threads : BgetPanic(t) /\ UNCHANGED kvars
  \/ \E t \in Threads : BgetSleep(t) /\ UNCHANGED kvars
  \/ \E t \in Threads : BreadReturn(t) /\ UNCHANGED kvars
  \/ \E t \in Threads : BrelseUnlock(t) /\ UNCHANGED kvars
  \/ \E t \in Threads : BrelseDrop(t) /\ UNCHANGED kvars
  \/ \E t \in Threads : Bpin(t) /\ UNCHANGED kvars
  \/ \E t \in Threads : Bunpin(t) /\ UNCHANGED kvars

\* The buffer cache under any interleaving of bread, brelse, bpin and bunpin.
Spec == Init /\ [][Next]_vars

NextIO ==
  \/ \E t \in Threads : \E r \in IOReqs :
       BgetBegin(t, r[1], r[2]) /\ UNCHANGED kvars
  \/ \E t \in Threads : BgetScan(t) /\ UNCHANGED kvars
  \/ \E t \in Threads : BgetMove(t) /\ UNCHANGED kvars
  \/ \E t \in Threads : BgetPanic(t) /\ UNCHANGED kvars
  \/ \E t \in Threads : BgetSleep(t) /\ UNCHANGED kvars
  \/ \E t \in Threads : BreadReturn(t) /\ UNCHANGED kvars
  \/ \E t \in Threads : \E v \in Values : Modify(t, v) /\ UNCHANGED kvars
  \/ \E t \in Threads : Bwrite(t) /\ UNCHANGED kvars
  \/ \E t \in Threads : BrelseUnlock(t) /\ UNCHANGED kvars
  \/ \E t \in Threads : BrelseDrop(t) /\ UNCHANGED kvars
  \/ \E t \in Threads : Bpin(t) /\ UNCHANGED kvars
  \/ \E t \in Threads : Bunpin(t) /\ UNCHANGED kvars

\* The buffer cache with its payloads and the device: threads read blocks,
\* store to them, write them back and release them.
SpecIO == Init /\ [][NextIO]_vars

\* What a step of the allocator leaves alone, and the bookkeeping of `some`:
\* when it is tracked, some[x] holds after the step iff core x is in a kalloc
\* call and a page has been linked in some pool after every step since the
\* call began.
KFrame(track) ==
  /\ UNCHANGED bvars
  /\ some' = [x \in Cpus |->
               /\ track
               /\ InKalloc(kpc'[x])
               /\ kpc[x] = "idle" \/ some[x]
               /\ \E j \in Cpus : freelist'[j] # <<>>]

KNext(alone, track, wild) ==
  \/ \E c \in Cpus : \E pa \in (IF wild THEN Addrs ELSE Pages) :
       KfreeBegin(c, pa, alone) /\ KFrame(track)
  \/ \E c \in Cpus : KfreeLink(c) /\ KFrame(track)
  \/ \E c \in Cpus : KallocBegin(c, alone) /\ KFrame(track)
  \/ \E c \in Cpus : KallocLocal(c) /\ KFrame(track)
  \/ \E c \in Cpus : KallocProbe(c) /\ KFrame(track)
  \/ \E c \in Cpus : KallocRemote(c) /\ KFrame(track)
  \/ \E c \in Cpus : KallocReturn(c) /\ KFrame(track)

\* The page allocator under any interleaving of kalloc and kfree on the
\* cores.
KSpec == Init /\ [][KNext(FALSE, FALSE, FALSE)]_vars

\* The same, with `some` tracked.
KSpecTrack == Init /\ [][KNext(FALSE, TRUE, FALSE)]_vars

\* The page allocator with one call at a time: a call begins only while
\* every other core is outside kalloc and kfree.
KSpecAlone == Init /\ [][KNext(TRUE, FALSE, FALSE)]_vars

\* A step of core c that waits for nothing: it is inside a critical section
\* or between two of them.
KRun(c) ==
  /\ KfreeLink(c) \/ KallocLocal(c) \/ KallocRemote(c) \/ KallocReturn(c)
  /\ KFrame(FALSE)

\* A step of kalloc's loop on core c, which may have to wait for a lock.
KProbe(c) == KallocProbe(c) /\ KFrame(FALSE)

\* The page allocator on cores that keep running: a core that can take a
\* step does, and a core spinning on a lock that is free again and again
\* gets it.
KSpecFair ==
  /\ Init
  /\ [][KNext(FALSE, FALSE, FALSE)]_vars
  /\ \A c \in Cpus : WF_vars(KRun(c)) /\ SF_vars(KProbe(c))

\* The page allocator where callers also pass kfree addresses that are no
\* page: unaligned, below the managed range, or at or above its end.
KSpecWild == Init /\ [][KNext(FALSE, FALSE, TRUE)]_vars

\* ------------------------------------------------------------ properties
Ident(b) == <<dev[b], blockno[b]>>

\* bget has returned the buffer to the thread, which has not released it.
Holding(t) == pc[t] \in {"bread", "held"}

\* C1: between bget's return of a buffer to a thread and that thread's
\* brelse, the thread owns the buffer's sleep lock, the buffer names the
\* block the thread asked for, and no other thread has been returned the
\* same buffer or a buffer for the same block.
C1_ExclusiveOwner ==
  \A t1 \in Threads :
    Holding(t1) =>
      /\ slk[cur[t1]] = t1
      /\ Ident(cur[t1]) = req[t1]
      /\ \A t2 \in Threads \ {t1} :
           Holding(t2) => cur[t2] # cur[t1] /\ req[t2] # req[t1]

\* One thread holds a buffer while another, which asked for the same block,
\* sleeps on that buffer's lock.
C1_Witness ==
  \E t1, t2 \in Threads :
    /\ t1 # t2
    /\ Holding(t1)
    /\ pc[t2] = "asleep"
    /\ cur[t2] = cur[t1]
    /\ req[t2] = req[t1]

\* C2 as stated: no two buffers of the pool carry the same (dev, blockno).
C2_UniqueIdentity ==
  \A b1, b2 \in Bufs : b1 # b2 => Ident(b1) # Ident(b2)

\* The buffer has been handed out by bget and not recycled since.
InUse(b) == refcnt[b] > 0 \/ valid[b] = 1

\* The buffer is linked in a bucket's list, where a lookup can meet it.
IsLinked(b) == \E k \in Buckets : InList(list[k], b)

\* C2, amended: no two buffers that are linked in a list and are referenced
\* or valid carry the same (dev, blockno).  Buffers never handed out since
\* binit all carry (0, 0), and a victim unlinked from a foreign bucket keeps
\* its old identity until it is relinked.
C2_UniqueCachedIdentity ==
  \A b1, b2 \in Bufs :
    /\ b1 # b2
    /\ IsLinked(b1) /\ InUse(b1)
    /\ IsLinked(b2) /\ InUse(b2)
    => Ident(b1) # Ident(b2)

\* Two buffers in use sit in one bucket, one of them moved there from
\* another bucket by an eviction.
C2_Witness ==
  \E b1, b2 \in Bufs :
    /\ b1 # b2
    /\ InUse(b1) /\ InUse(b2)
    /\ BucketOf(b1) = BucketOf(b2)
    /\ b1 % BUCKET_SIZE # BucketOf(b1)

\* C3: reference counts are never negative, and a step leaves the identity,
\* the bucket and the validity of every referenced buffer alone (validity
\* may only be set, by bread).
C3_ReferencedUntouched ==
  /\ [](\A b \in Bufs : refcnt[b] >= 0)
  /\ [][\A b \in Bufs :
          refcnt[b] > 0 =>
            /\ dev'[b] = dev[b]
            /\ blockno'[b] = blockno[b]
            /\ valid'[b] >= valid[b]
            /\ BucketOf(b)' = BucketOf(b)]_vars

\* An eviction has just passed over a referenced buffer of the home bucket
\* and taken another one.
C3_Witness ==
  \E t \in Threads : \E b \in Bufs :
    /\ pc[t] = "asleep"
    /\ fresh[t]
    /\ b # cur[t]
    /\ refcnt[b] > 0
    /\ BucketOf(b) = Bucket(req[t][2])
    /\ refcnt[cur[t]] = 1

\* The thread is in bget's scan, at a foreign bucket whose lock another
\* thread holds: it spins in acquire() with its home lock held.
WaitsFor(t, k) ==
  /\ pc[t] = "scan"
  /\ idx[t] < BUCKET_SIZE
  /\ k = (Bucket(req[t][2]) + idx[t]) % BUCKET_SIZE
  /\ k # Bucket(req[t][2])
  /\ ~SpinFree(k)
  /\ ~SpinHolding(k, t)

\* C4: no two threads each hold a bucket lock while waiting for the bucket
\* lock the other holds.
C4_NoCircularWait ==
  ~ \E t1, t2 \in Threads : \E k1, k2 \in Buckets :
      /\ t1 # t2
      /\ WaitsFor(t1, k1) /\ lock[k1] = t2
      /\ WaitsFor(t2, k2) /\ lock[k2] = t1

\* C5: the victim of a miss has the smallest last-used tick of all the
\* buffers of the pool that are unreferenced when it is chosen.
C5_GlobalLRU ==
  [][\A t \in Threads :
       pc[t] = "scan" /\ pc'[t] \in {"asleep", "move"} =>
         \A b \in Bufs :
           refcnt[b] = 0 => used_tick[cur'[t]] <= used_tick[b]]_vars

AllReferenced == \A b \in Bufs : refcnt[b] > 0

C10_RoundTrip ==
  \A t \in Threads :
    pc[t] = "held" /\ ~stored[cur[t]] =>
      /\ Ident(cur[t]) = req[t]
      /\ valid[cur[t]] = 1
      /\ data[cur[t]] = disk[req[t]]

\* A block written with a content other than the device's initial one was
\* no longer cached when the thread asked for it, and the thread's bread
\* has read that content back from the device.
C10_Witness ==
  \E t \in Threads :
    /\ pc[t] = "held"
    /\ fresh[t]
    /\ disk[req[t]] = 1
    /\ data[cur[t]] = 1

Linked(p) == \E j \in Cpus : InList(freelist[j], p)

\* C6: a page kalloc is returning or has returned, and not yet passed to
\* kfree, is linked in no free list, and no other core was returned it.
C6_NoDoubleAllocation ==
  \A c \in Cpus :
    LET mine == held[c] \cup (IF kpc[c] = "ka_ret" THEN {kr[c]} \ {NoPage} ELSE {})
    IN \A p \in mine :
         /\ ~Linked(p)
         /\ \A x \in Cpus \ {c} :
              /\ p \notin held[x]
              /\ ~(kpc[x] = "ka_ret" /\ kr[x] = p)

\* One core holds a page it took from another core's pool while a third
\* core is returning a page it took from another core's pool.
C6_Witness ==
  \E c, x \in Cpus :
    /\ c # x
    /\ c # 0
    /\ x # 0
    /\ held[c] # {}
    /\ kpc[x] = "ka_ret"
    /\ kr[x] # NoPage
    /\ freelist[c] = <<>>
    /\ freelist[x] = <<>>

\* C7: a kalloc call returns none only if at some instant of the call no
\* page was linked in any pool.
C7_NoSpuriousFailure ==
  \A c \in Cpus : kpc[c] = "ka_ret" /\ kr[c] = NoPage => ~some[c]

\* The first pool, in index order and other than the core's own, that had a
\* page when the call began.
FirstNonEmpty(c) ==
  CHOOSE j \in Cpus \ {c} :
    /\ pre[j] # <<>>
    /\ \A x \in Cpus \ {c} : x < j => pre[x] = <<>>

\* C8: a kalloc that runs alone on a core whose pool is empty, while another
\* pool has a page, returns the first page of the first such pool in index
\* order; that pool has lost exactly this page and every other pool is as
\* it was.
C8_StealFromFirstNonEmpty ==
  \A c \in Cpus :
    /\ kpc[c] = "ka_ret"
    /\ pre[c] = <<>>
    /\ \E j \in Cpus \ {c} : pre[j] # <<>>
    => LET j == FirstNonEmpty(c)
       IN /\ kr[c] = Head(pre[j])
          /\ freelist = [pre EXCEPT ![j] = Tail(pre[j])]
          /\ ~Linked(kr[c])

\* The call passed over an empty pool and took the page of the next pool
\* although a later pool had a page too.
C8_Witness ==
  \E c \in Cpus :
    /\ kpc[c] = "ka_ret"
    /\ pre[c] = <<>>
    /\ kr[c] # NoPage
    /\ \E j, x \in Cpus \ {c} : j < x /\ pre[j] # <<>> /\ pre[x] # <<>>

\* C11: the step of kfree that links the page puts it at the head of the
\* free list of the core executing the call and leaves every other core's
\* free list as it was.
C11_FreeLinksLocalHead ==
  [][\A c \in Cpus :
       kpc[c] = "kf_link" /\ kpc'[c] = "idle" =>
         freelist' = [freelist EXCEPT ![c] = <<karg[c]>> \o freelist[c]]]_vars

\* A core other than the one kinit ran on has freed both pages, which it
\* took from another core's pool, the second onto a list that held the first.
C11_Witness ==
  \E c \in Cpus \ {0} : \E p, q \in Pages :
    /\ kpc[c] = "idle"
    /\ p < q
    /\ freelist[c] = <<p, q>>

\* C12: an address that is not page-aligned, lies below the managed range
\* or at or above its end never passes kfree's test (only pages are ever
\* being linked or linked), and the step that panics modifies no free list,
\* takes no lock and leaves the pages the cores hold alone.
C12_BadAddressPanics ==
  /\ [](\A c \in Cpus :
          /\ kpc[c] = "kf_link" => karg[c] \in Pages
          /\ \A j \in 1 .. Len(freelist[c]) : freelist[c][j] \in Pages)
  /\ [][\A c \in Cpus :
          kpc[c] # "panic" /\ kpc'[c] = "panic" =>
            /\ kpc[c] = "idle"
            /\ UNCHANGED <<freelist, klock, held, karg>>]_vars

\* A core that holds a page has panicked in kfree while another core has
\* since freed a page into its own pool.
C12_Witness ==
  \E c, x \in Cpus :
    /\ c # x
    /\ kpc[c] = "panic"
    /\ held[c] # {}
    /\ x # 0
    /\ kpc[x] = "idle"
    /\ freelist[x] # <<>>

\* The threads that hold a reference to b from bget, and those that hold a
\* pin on it.
Getters(b) ==
  {t \in Threads : cur[t] = b /\ pc[t] \in {"asleep", "bread", "held", "brelse"}}

Pinners(b) == {t \in Threads : pinned[t] = b}

\* C13: a buffer's reference count is the number of bget references not yet
\* released plus the number of pins not yet undone, so a pin and its unpin
\* return it to what the other threads' calls make it; the pin and the
\* unpin change that one count by one and touch no sleep lock, no bucket
\* lock past the call and no list; and while a pin is outstanding the
\* buffer keeps its identity and stays linked in its home bucket.
C13_PinUnpin ==
  /\ [](\A b \in Bufs :
          refcnt[b] = Cardinality(Getters(b)) + Cardinality(Pinners(b)))
  /\ [][\A t \in Threads :
          /\ pinned[t] = NoBuf /\ pinned'[t] # NoBuf =>
                /\ refcnt' = [refcnt EXCEPT ![pinned'[t]] = @ + 1]
                /\ UNCHANGED <<slk, lock, next, prev, dev, blockno, valid>>
          /\ pinned[t] # NoBuf /\ pinned'[t] = NoBuf =>
                /\ refcnt' = [refcnt EXCEPT ![pinned[t]] = @ - 1]
                /\ UNCHANGED <<slk, lock, next, prev, dev, blockno, valid>>
          /\ pinned[t] # NoBuf /\ pinned'[t] = pinned[t] =>
                /\ Ident(pinned[t])' = Ident(pinned[t])
                /\ InList(list[Bucket(blockno[pinned[t]])], pinned[t])']_vars

\* A thread has released a buffer it still has pinned, nobody else refers
\* to it, and a miss by another thread has recycled the other buffer,
\* although the pinned one was last used no later.
C13_Witness ==
  \E t, u \in Threads :
    /\ t # u
    /\ pinned[t] # NoBuf
    /\ pc[t] = "idle"
    /\ refcnt[pinned[t]] = 1
    /\ pc[u] = "asleep"
    /\ fresh[u]
    /\ cur[u] # pinned[t]
    /\ used_tick[cur[u]] >= used_tick[pinned[t]]

\* C14: a buffer bread has returned is valid and its sleep lock is the
\* caller's; bread's last step reads the device exactly when the buffer is
\* not valid (then the payload becomes the device's content of the block
\* asked for) and otherwise leaves the payload alone; a miss hands its
\* victim on marked not valid; and the valid payload of a buffer linked in
\* a list, not stored to since its last transfer, is the device's content
\* of the block the buffer names now, never that of a block it named before.
C14_BreadValid ==
  /\ [](\A t \in Threads :
          pc[t] = "held" => valid[cur[t]] = 1 /\ slk[cur[t]] = t)
  /\ [](\A b \in Bufs :
          IsLinked(b) /\ valid[b] = 1 /\ ~stored[b] =>
            data[b] = disk[Ident(b)])
  /\ [][\A t \in Threads :
          /\ pc[t] = "bread" /\ pc'[t] = "held" =>
                IF valid[cur[t]] = 0
                THEN /\ data'[cur[t]] = disk[req[t]]
                     /\ ~stored'[cur[t]]
                ELSE UNCHANGED <<data, stored, disk>>
          /\ pc[t] \in {"scan", "move"} /\ pc'[t] = "asleep" =>
                valid'[cur'[t]] = 0]_vars

\* One thread's bread has missed, recycled a buffer for a block other than
\* the one buffers name initially and read it from the device, while
\* another thread's bget has hit a valid buffer whose payload was stored to
\* and not written back.
C14_Witness ==
  \E t, u \in Threads :
    /\ t # u
    /\ pc[t] = "held"
    /\ fresh[t]
    /\ req[t] # <<0, 0>>
    /\ pc[u] = "bread"
    /\ valid[cur[u]] = 1
    /\ stored[cur[u]]
    /\ data[cur[u]] # disk[req[u]]

\* How many times b occurs in the lists of all the buckets.
Occurrences(b) ==
  Cardinality({<<k, j>> \in Buckets \X (1 .. NBUF) :
                 j <= Len(list[k]) /\ list[k][j] = b})

\* A miss has unlinked b from a foreign bucket and not yet relinked it; the
\* thread still holds the lock of its home bucket.
InTransit(b) ==
  \E t \in Threads :
    /\ pc[t] = "move"
    /\ cur[t] = b
    /\ SpinHolding(Bucket(req[t][2]), t)

\* Bucket k's list is a ring through its head: followed along next it
\* comes back to the head, and prev undoes next at every node of it.
RingOK(k) ==
  LET h == HeadOf(k)
      ring == {h} \cup {list[k][j] : j \in 1 .. Len(list[k])}
      last == IF list[k] = <<>> THEN h ELSE list[k][Len(list[k])]
  IN /\ next[last] = h
     /\ prev[h] = last
     /\ \A n \in ring : prev[next[n]] = n /\ next[prev[n]] = n

\* C15: after binit buffer i is in the list of bucket i % BUCKET_SIZE, and
\* in every reachable state each buffer is linked exactly once in exactly
\* one bucket's list, or in none while a miss that still holds its home
\* lock is moving it there; every list's next and prev pointers agree.
C15_OneList ==
  /\ \A i \in Bufs : InList(list[i % BUCKET_SIZE], i)
  /\ [](\A b \in Bufs :
          \/ Occurrences(b) = 1 /\ ~InTransit(b)
          \/ Occurrences(b) = 0 /\ InTransit(b))
  /\ [](\A k \in Buckets : RingOK(k))

\* A miss is moving a victim it has unlinked while the other buffer is
\* linked in a bucket other than the one binit put it in.
C15_Witness ==
  \E b, v \in Bufs :
    /\ b # v
    /\ InTransit(v)
    /\ Occurrences(v) = 0
    /\ Occurrences(b) = 1
    /\ BucketOf(b) # b % BUCKET_SIZE

\* The list without b.
Without(s, b) == SelectSeq(s, LAMBDA x : x # b)

\* C16: a buffer with a reference is linked in the list of bucket
\* blockno % BUCKET_SIZE, the bucket whose lock brelse, bpin and bunpin
\* take; and brelse's last step changes no list but that one, where a
\* buffer whose count reaches zero goes to the head.
C16_ReferencedAtHome ==
  /\ [](\A b \in Bufs :
          refcnt[b] > 0 => InList(list[Bucket(blockno[b])], b))
  /\ [][\A t \in Threads :
          pc[t] = "brelse" /\ pc'[t] = "idle" =>
            LET b == cur[t]
                k == Bucket(blockno[b])
            IN /\ \A j \in Buckets \ {k} : list'[j] = list[j]
               /\ list'[k] = IF refcnt'[b] = 0
                              THEN <<b>> \o Without(list[k], b)
                              ELSE list[k]]_vars

\* A thread is releasing its reference, the last one, to a buffer that an
\* eviction moved into its home bucket from the bucket binit put it in and
\* that is not at the head of the list.
C16_Witness ==
  \E t \in Threads :
    LET b == cur[t]
    IN /\ pc[t] = "brelse"
       /\ refcnt[b] = 1
       /\ b % BUCKET_SIZE # Bucket(blockno[b])
       /\ Len(list[Bucket(blockno[b])]) = 2
       /\ list[Bucket(blockno[b])][2] = b

\* The place of b in the list.
Position(s, b) == CHOOSE j \in 1 .. Len(s) : s[j] = b

\* C17: the victim a miss takes from the bucket it is scanning is, of the
\* unreferenced buffers of that bucket's list, one with the smallest
\* last-used tick, and the first in list order of those with that tick.
C17_OldestInBucket ==
  [][\A t \in Threads :
       pc[t] = "scan" /\ pc'[t] \in {"asleep", "move"} =>
         LET s == list[(Bucket(req[t][2]) + idx[t]) % BUCKET_SIZE]
             v == cur'[t]
         IN /\ InList(s, v)
            /\ refcnt[v] = 0
            /\ \A j \in 1 .. Len(s) :
                 refcnt[s[j]] = 0 =>
                   \/ used_tick[v] < used_tick[s[j]]
                   \/ /\ used_tick[v] = used_tick[s[j]]
                      /\ Position(s, v) <= j]_vars

\* C18: a thread holds a bucket lock only inside bget's miss path (the
\* scan, the move of the victim, the final panic), and then only the lock
\* of its home bucket: where it sleeps on a buffer's lock, reads or writes
\* the device, holds a buffer, is between the two halves of brelse or has
\* returned, it holds none.
C18_NoSpinLockAcrossSleep ==
  \A t \in Threads : \A k \in Buckets :
    SpinHolding(k, t) =>
      /\ pc[t] \in {"scan", "move", "panic"}
      /\ k = Bucket(req[t][2])

\* A miss has recycled a buffer and released its locks, and now sleeps on
\* the buffer's lock, which a thread that hit the buffer meanwhile holds;
\* that thread is about to read the block from the device.
C18_Witness ==
  \E t, u \in Threads :
    /\ pc[t] = "asleep"
    /\ fresh[t]
    /\ pc[u] = "bread"
    /\ cur[u] = cur[t]
    /\ SleepHolding(cur[t], u)
    /\ valid[cur[t]] = 0
    /\ \A k \in Buckets : SpinFree(k)

\* The pool locks core c holds.
LocksHeld(c) == {i \in Cpus : klock[i] = c}

\* C19: a core holds at most one pool lock at any instant, every pool lock
\* taken is released again, and every kalloc call in progress returns.
C19_KallocReturns ==
  /\ [](\A c \in Cpus : Cardinality(LocksHeld(c)) <= 1)
  /\ \A i \in Cpus : ~PoolLockFree(i) ~> PoolLockFree(i)
  /\ \A c \in Cpus : InKalloc(kpc[c]) ~> kpc[c] = "idle"

\* Two cores are in kalloc's loop over the pools, each about to take the
\* other's pool lock, while the third holds its own pool's lock in kfree.
C19_Witness ==
  \E c, x, y \in Cpus :
    /\ kpc[c] = "ka_steal" /\ ki[c] = x
    /\ kpc[x] = "ka_steal" /\ ki[x] = c
    /\ kpc[y] = "kf_link"
    /\ LocksHeld(y) = {y}

\* Where page p is: the places it is linked at, the cores that hold it, the
\* kalloc calls returning it, the kfree calls linking it.
LinkedAt(p) ==
  {<<c, j>> \in Cpus \X (1 .. NPAGE) :
     j <= Len(freelist[c]) /\ freelist[c][j] = p}

HeldBy(p) == {c \in Cpus : p \in held[c]}

ReturnedTo(p) == {c \in Cpus : kpc[c] = "ka_ret" /\ kr[c] = p}

FreedBy(p) == {c \in Cpus : kpc[c] = "kf_link" /\ karg[c] = p}

\* C20: every page is in exactly one place: linked once in one core's free
\* list, held by one caller (or on its way back to it from kalloc), or,
\* inside a kfree's critical section, about to be linked; no list is
\* longer than the number of pages, so none runs in a cycle, and the
\* numbers of linked and of held pages add up to the number of pages
\* whenever no kfree is inside its critical section.
C20_PageConservation ==
  /\ \A p \in Pages :
       Cardinality(LinkedAt(p)) + Cardinality(HeldBy(p))
         + Cardinality(ReturnedTo(p)) + Cardinality(FreedBy(p)) = 1
  /\ \A c \in Cpus :
       /\ Len(freelist[c]) <= NPAGE
       /\ \A j \in 1 .. Len(freelist[c]) : freelist[c][j] \in Pages
       /\ held[c] \subseteq Pages

\* With no call in progress, a core other than the one kinit ran on holds a
\* page and another such core has a page in its pool.
C20_Witness ==
  \E c, x \in Cpus \ {0} :
    /\ c # x
    /\ \A y \in Cpus : kpc[y] = "idle"
    /\ held[c] # {}
    /\ freelist[x] # <<>>

====
